---- MODULE Spec2Model ----
(***************************************************************************)
(* A model of src/day29(flappybird).py: the FlappyBird game loop, the Bird *)
(* and the Pipe classes.                                                   *)
(*                                                                         *)
(* Units.  Bird.velocity is a multiple of 0.5 in the program; the model    *)
(* keeps it in half pixels per frame (velocity 20 is the program's 10).    *)
(* Bird.angle is kept in half degrees.  pygame.Rect holds integers, and    *)
(* assigning a float to a Rect attribute truncates it toward zero.         *)
(*                                                                         *)
(* Time.  The program reads pygame.time.get_ticks() only to compare it     *)
(* with last_pipe_time, so the model keeps their difference,               *)
(* since_last_pipe = get_ticks() - last_pipe_time.  The clock advances at  *)
(* clock.tick(FPS), by env.frame_ms per frame.                             *)
(***************************************************************************)
EXTENDS Integers, Sequences, FiniteSets, TLC

VARIABLES
    pc,               \* position in game_loop: "events", "update", "quit", "exited"
    running,          \* game_loop's local variable
    game_state,       \* FlappyBird.game_state
    bird,             \* FlappyBird.bird: [rect, velocity, angle]
    pipes,            \* FlappyBird.pipes: sequence of [id, x, top, bottom, scored]
    score,            \* FlappyBird.score
    high_score,       \* FlappyBird.high_score
    pipe_frequency,   \* FlappyBird.pipe_frequency
    since_last_pipe,  \* pygame.time.get_ticks() - FlappyBird.last_pipe_time
    saved,            \* the integer in high_score.txt
    env,              \* the run: [frame_ms, tops, high_score_file, max_ticks, flap_at, stop]
    calls,            \* what the event loop of the current frame did
    session,          \* number of restarts so far
    ticks,            \* frames updated in PLAYING in this session
    idle,             \* consecutive frames without SPACE outside PLAYING
    pipe_count        \* Pipe objects constructed in this session

vars == <<pc, running, game_state, bird, pipes, score, high_score, pipe_frequency,
          since_last_pipe, saved, env, calls, session, ticks, idle, pipe_count>>

(***************************************************************************)
(* Program constants                                                       *)
(***************************************************************************)
MENU == "MENU"
PLAYING == "PLAYING"
GAME_OVER == "GAME_OVER"
GameState == {MENU, PLAYING, GAME_OVER}

SCREEN_WIDTH == 1000
SCREEN_HEIGHT == 700
FPS == 60
INITIAL_PIPE_FREQUENCY == 1500
MIN_PIPE_FREQUENCY == 800
PIPE_FREQUENCY_STEP == 100
SCORE_STEP == 5
SEED_PIPES == 2
SEED_SPACING == 400

BIRD_SIZE == 50          \* bird_img is scaled to (50, 50)
BIRD_START_X == 100      \* Bird.__init__: centre of the rect
gravity == 1             \* 0.5 pixel per frame, in half pixels
max_velocity == 20       \* 10 pixels per frame, in half pixels
flap_velocity == -16     \* -8 pixels per frame, in half pixels
ANGLE_PER_VELOCITY == 3  \* angle = -velocity * 3
MIN_ANGLE == -60         \* -30 degrees, in half degrees
MAX_ANGLE == 90          \* 45 degrees, in half degrees

PIPE_WIDTH == 80
PIPE_GAP == 200
PIPE_SPEED == 5
PIPE_MARGIN == 100       \* random.randint(100, SCREEN_HEIGHT - gap - 100)
MENU_BIRD_RAISE == 50    \* draw_menu: SCREEN_HEIGHT // 2 - 50

(***************************************************************************)
(* Bounds of the model                                                     *)
(***************************************************************************)
LongTicks == 225         \* frames played in the first session of the long run
ShortTicks == 125        \* frames played in the first session of the other runs
MaxReplayTicks == 50     \* frames played in a session after a restart
MaxRestarts == 1         \* restarts from GAME_OVER
MaxIdleFrames == 1       \* consecutive frames without SPACE in MENU or GAME_OVER
SlowFrameMs == 1501      \* frame time of the slow machine
MID_TOP == 250           \* the draw of random.randint on the slow machine
OLD_HIGH_SCORE == 2      \* a high score saved by an earlier run
CeilingTicks == 45       \* frames in which the climbing player may still flap

\* The frame time of the fast machine: clock.tick(60) makes a frame last at
\* least 1000 \div 60 milliseconds.
FrameMs == 1000 \div FPS

\* The velocities (half pixels per frame) at which the player presses SPACE
\* while playing: the player flaps when the bird falls at 8 or 8.5.
FlapAt == {16, 17}

\* The velocities at which the climbing player presses SPACE: right after a
\* flap (velocity -7.5), and at rest (at the start, at the top of a jump and
\* under the ceiling).
ClimbAt == {flap_velocity + gravity, 0}

\* The values random.randint(100, SCREEN_HEIGHT - self.gap - 100) can return
TopRange == PIPE_MARGIN .. (SCREEN_HEIGHT - PIPE_GAP - PIPE_MARGIN)

\* The three runs the model explores.  frame_ms is the duration of every frame
\* (the slow machine needs longer than the initial pipe_frequency for each),
\* tops are the values random.randint(100, 400) returns, high_score_file is
\* what load_high_score() finds in high_score.txt (0 also when it is missing),
\* max_ticks bounds the first session, flap_at are the velocities at which the
\* player flaps, and stop is what the player does when max_ticks frames have
\* been played: close the window ("quit") or stop flapping ("fall").
Environments ==
    { [frame_ms |-> FrameMs, high_score_file |-> 0, max_ticks |-> ShortTicks,
       tops |-> {PIPE_MARGIN, SCREEN_HEIGHT - PIPE_GAP - PIPE_MARGIN},
       flap_at |-> FlapAt, stop |-> "quit"],
      [frame_ms |-> SlowFrameMs, high_score_file |-> 0, max_ticks |-> LongTicks,
       tops |-> {MID_TOP}, flap_at |-> FlapAt, stop |-> "quit"],
      [frame_ms |-> SlowFrameMs, high_score_file |-> OLD_HIGH_SCORE, max_ticks |-> ShortTicks,
       tops |-> {MID_TOP}, flap_at |-> FlapAt, stop |-> "quit"] }

\* The run of the climbing player, who flaps in every frame for as long as
\* they like and lets the bird fall in the end.
CeilingEnvironments ==
    { [frame_ms |-> FrameMs, high_score_file |-> 0, max_ticks |-> CeilingTicks,
       tops |-> {MID_TOP}, flap_at |-> ClimbAt, stop |-> "fall"] }

\* The events pygame.event.get() returns in one frame.
K_SPACE == "K_SPACE"     \* a KEYDOWN event with key K_SPACE
QUIT == "QUIT"           \* a QUIT event
K_OTHER == "K_OTHER"     \* any other event
Inputs == { <<>>, <<K_OTHER>>, <<K_SPACE>>, <<QUIT>>,
            <<K_SPACE, K_SPACE>>, <<K_SPACE, QUIT>>, <<QUIT, K_SPACE>> }

(***************************************************************************)
(* Arithmetic helpers                                                      *)
(***************************************************************************)
Min(a, b) == IF a < b THEN a ELSE b
Max(a, b) == IF a > b THEN a ELSE b
Abs(a) == IF a < 0 THEN -a ELSE a

\* int(n / 2) as pygame converts a float to a Rect coordinate: toward zero.
TruncHalf(n) == IF n >= 0 THEN n \div 2 ELSE -((-n) \div 2)

(***************************************************************************)
(* pygame.Rect                                                             *)
(***************************************************************************)
Rect(x, y, w, h) == [x |-> x, y |-> y, w |-> w, h |-> h]
centerx(r) == r.x + r.w \div 2
centery(r) == r.y + r.h \div 2
bottom(r) == r.y + r.h
left(r) == r.x

\* rect.center = (cx, cy)
SetCenter(r, cx, cy) == [r EXCEPT !.x = cx - r.w \div 2, !.y = cy - r.h \div 2]

\* Rect.colliderect: rectangles of positive size that overlap
colliderect(a, b) ==
    /\ a.w > 0 /\ a.h > 0 /\ b.w > 0 /\ b.h > 0
    /\ a.x < b.x + b.w
    /\ a.y < b.y + b.h
    /\ a.x + a.w > b.x
    /\ a.y + a.h > b.y

\* pygame.transform.rotate of the 50 x 50 image: the side of the rotated
\* surface, int(50 * (|cos a| + |sin a|)), for a = 0, 1.5, 3, ... 30 degrees.
RotatedSizes ==
    <<50, 51, 52, 53, 54, 56, 57, 58, 59, 60, 61, 62, 63, 63, 64, 65, 66, 66, 67, 67, 68>>

\* angle in half degrees, a multiple of 3 between -60 and 60
RotatedSize(angle) == RotatedSizes[Abs(angle) \div ANGLE_PER_VELOCITY + 1]

(***************************************************************************)
(* class Bird                                                              *)
(***************************************************************************)
\* Bird.__init__: image.get_rect(center=(100, SCREEN_HEIGHT // 2))
Bird_init ==
    [ rect     |-> SetCenter(Rect(0, 0, BIRD_SIZE, BIRD_SIZE),
                             BIRD_START_X, SCREEN_HEIGHT \div 2),
      velocity |-> 0,
      angle    |-> 0 ]

\* Bird.flap adding the impulse to the velocity instead of setting it
Bird_flap_Additive(b) == [b EXCEPT !.velocity = @ + flap_velocity]

\* Bird.flap
Bird_flap(b) == [b EXCEPT !.velocity = flap_velocity]

\* Bird.update with the test "if self.rect.top <= 0" left out
Bird_update_NoClamp(b) ==
    LET v     == Min(b.velocity + gravity, max_velocity)
        moved == [b.rect EXCEPT !.y = TruncHalf(2 * b.rect.y + v)]
        angle == Max(MIN_ANGLE, Min(-v * ANGLE_PER_VELOCITY, MAX_ANGLE))
        side  == RotatedSize(angle)
        r     == SetCenter(Rect(0, 0, side, side), centerx(moved), centery(moved))
    IN  [rect |-> r, velocity |-> v, angle |-> angle]

\* Bird.update with the min() of the velocity left out
Bird_update_NoMax(b) ==
    LET v     == b.velocity + gravity
        moved == [b.rect EXCEPT !.y = TruncHalf(2 * b.rect.y + v)]
        angle == Max(MIN_ANGLE, Min(-v * ANGLE_PER_VELOCITY, MAX_ANGLE))
        side  == RotatedSize(angle)
        r     == SetCenter(Rect(0, 0, side, side), centerx(moved), centery(moved))
    IN  IF r.y <= 0
        THEN [rect |-> [r EXCEPT !.y = 0], velocity |-> 0, angle |-> angle]
        ELSE [rect |-> r, velocity |-> v, angle |-> angle]

\* Bird.update
Bird_update(b) ==
    LET v     == Min(b.velocity + gravity, max_velocity)
        \* self.rect.y += self.velocity
        moved == [b.rect EXCEPT !.y = TruncHalf(2 * b.rect.y + v)]
        \* self.angle = max(-30, min(-self.velocity * 3, 45))
        angle == Max(MIN_ANGLE, Min(-v * ANGLE_PER_VELOCITY, MAX_ANGLE))
        \* self.rect = self.image.get_rect(); self.rect.center = center
        side  == RotatedSize(angle)
        r     == SetCenter(Rect(0, 0, side, side), centerx(moved), centery(moved))
    IN  IF r.y <= 0
        THEN [rect |-> [r EXCEPT !.y = 0], velocity |-> 0, angle |-> angle]
        ELSE [rect |-> r, velocity |-> v, angle |-> angle]

(***************************************************************************)
(* class Pipe                                                              *)
(***************************************************************************)
\* Pipe.__init__ with the bottom segment's edge measured from the screen bottom
Pipe_init_FromBottom(id, x, top) ==
    [id |-> id, x |-> x, top |-> top, bottom |-> SCREEN_HEIGHT - top, scored |-> FALSE]

\* Pipe.__init__; id is the object's identity (its serial in the session),
\* top is the value random.randint returned
Pipe_init(id, x, top) ==
    [id |-> id, x |-> x, top |-> top, bottom |-> top + PIPE_GAP, scored |-> FALSE]

\* Pipe.update
Pipe_update(p) == [p EXCEPT !.x = @ - PIPE_SPEED]

\* Pipe.collide
Pipe_collide(p, b) ==
    LET top_pipe_rect    == Rect(p.x, 0, PIPE_WIDTH, p.top)
        bottom_pipe_rect == Rect(p.x, p.bottom, PIPE_WIDTH, SCREEN_HEIGHT - p.bottom)
    IN  colliderect(b.rect, top_pipe_rect) \/ colliderect(b.rect, bottom_pipe_rect)

(***************************************************************************)
(* class FlappyBird.  The operators take and return the object g, a record *)
(* of its fields together with game_loop's running and the log of calls.   *)
(***************************************************************************)
\* reset_game with "self.score = 0" left out
reset_game_KeepScore(g, tops) ==
    [g EXCEPT !.bird = Bird_init,
              !.pipes = [i \in 1..SEED_PIPES |->
                            Pipe_init(i, SCREEN_WIDTH + (i - 1) * SEED_SPACING, tops[i])],
              !.pipe_count = SEED_PIPES,
              !.game_state = MENU,
              !.since_last_pipe = 0]

\* FlappyBird.reset_game; tops are the two values random.randint returns
reset_game(g, tops) ==
    [g EXCEPT !.bird = Bird_init,
              !.pipes = [i \in 1..SEED_PIPES |->
                            Pipe_init(i, SCREEN_WIDTH + (i - 1) * SEED_SPACING, tops[i])],
              !.pipe_count = SEED_PIPES,
              !.score = 0,
              !.game_state = MENU,
              !.since_last_pipe = 0]

\* game_over with the comparison dropped: the high score is overwritten
game_over_Overwrite(g) ==
    [g EXCEPT !.game_state = GAME_OVER, !.high_score = g.score]

\* FlappyBird.game_over
game_over(g) ==
    [g EXCEPT !.game_state = GAME_OVER,
              !.high_score = IF g.score > g.high_score THEN g.score ELSE g.high_score]

\* FlappyBird.check_collisions
check_collisions(g) == \E i \in 1..Len(g.pipes) : Pipe_collide(g.pipes[i], g.bird)

\* The loop body with "pipe.scored = True" left out
UpdatePipe_NoFlag(g, i) ==
    LET pipe   == Pipe_update(g.pipes[i])
        passed == ~pipe.scored /\ pipe.x + PIPE_WIDTH < left(g.bird.rect)
        sc     == g.score + 1
    IN  IF passed
        THEN [g EXCEPT !.pipes[i] = pipe,
                       !.score = sc,
                       !.pipe_frequency =
                           IF sc % SCORE_STEP = 0 /\ g.pipe_frequency > MIN_PIPE_FREQUENCY
                           THEN g.pipe_frequency - PIPE_FREQUENCY_STEP
                           ELSE g.pipe_frequency]
        ELSE [g EXCEPT !.pipes[i] = pipe]

\* The loop body testing the score before its increment for the speed-up
UpdatePipe_OldScore(g, i) ==
    LET pipe   == Pipe_update(g.pipes[i])
        passed == ~pipe.scored /\ pipe.x + PIPE_WIDTH < left(g.bird.rect)
        sc     == g.score + 1
    IN  IF passed
        THEN [g EXCEPT !.pipes[i] = [pipe EXCEPT !.scored = TRUE],
                       !.score = sc,
                       !.pipe_frequency =
                           IF g.score % SCORE_STEP = 0 /\ g.pipe_frequency > MIN_PIPE_FREQUENCY
                           THEN g.pipe_frequency - PIPE_FREQUENCY_STEP
                           ELSE g.pipe_frequency]
        ELSE [g EXCEPT !.pipes[i] = pipe]

\* The loop body with the test "self.pipe_frequency > 800" left out
UpdatePipe_NoFloor(g, i) ==
    LET pipe   == Pipe_update(g.pipes[i])
        passed == ~pipe.scored /\ pipe.x + PIPE_WIDTH < left(g.bird.rect)
        sc     == g.score + 1
    IN  IF passed
        THEN [g EXCEPT !.pipes[i] = [pipe EXCEPT !.scored = TRUE],
                       !.score = sc,
                       !.pipe_frequency =
                           IF sc % SCORE_STEP = 0
                           THEN g.pipe_frequency - PIPE_FREQUENCY_STEP
                           ELSE g.pipe_frequency]
        ELSE [g EXCEPT !.pipes[i] = pipe]

\* update_pipes, the body of "for pipe in self.pipes" for the pipe at index i
UpdatePipe(g, i) ==
    LET pipe   == Pipe_update(g.pipes[i])
        passed == ~pipe.scored /\ pipe.x + PIPE_WIDTH < left(g.bird.rect)
        sc     == g.score + 1
    IN  IF passed
        THEN [g EXCEPT !.pipes[i] = [pipe EXCEPT !.scored = TRUE],
                       !.score = sc,
                       !.pipe_frequency =
                           IF sc % SCORE_STEP = 0 /\ g.pipe_frequency > MIN_PIPE_FREQUENCY
                           THEN g.pipe_frequency - PIPE_FREQUENCY_STEP
                           ELSE g.pipe_frequency]
        ELSE [g EXCEPT !.pipes[i] = pipe]

\* update_pipes, the loop "for pipe in self.pipes" from index i on
RECURSIVE UpdateLoop(_, _)
UpdateLoop(g, i) ==
    IF i > Len(g.pipes) THEN g ELSE UpdateLoop(UpdatePipe(g, i), i + 1)

\* update_pipes, "if current_time - self.last_pipe_time > self.pipe_frequency"
SpawnDue(g) == g.since_last_pipe > g.pipe_frequency

\* update_pipes, the spawn
SpawnPipe(g, top) ==
    IF SpawnDue(g)
    THEN [g EXCEPT !.pipes = Append(g.pipes, Pipe_init(g.pipe_count + 1, SCREEN_WIDTH, top)),
                   !.pipe_count = g.pipe_count + 1,
                   !.since_last_pipe = 0]
    ELSE g

\* The removal with the test "pipe.x + pipe.width <= 0"
RemoveOffScreen_AtEdge(ps) == SelectSeq(ps, LAMBDA p : ~(p.x + PIPE_WIDTH <= 0))

\* update_pipes, pipes_to_remove and the loop that removes them
RemoveOffScreen(ps) == SelectSeq(ps, LAMBDA p : ~(p.x + PIPE_WIDTH < 0))

\* FlappyBird.update_pipes; top is the value random.randint returns if a pipe spawns
update_pipes(g, top) ==
    LET h == UpdateLoop(SpawnPipe(g, top), 1)
    IN  [h EXCEPT !.pipes = RemoveOffScreen(h.pipes)]

\* The event loop with the test of event.key dropped: any key acts as SPACE
HandleEvent_AnyKey(g, e, tops) ==
    IF e = QUIT THEN [g EXCEPT !.running = FALSE]
    ELSE LET h == [g EXCEPT !.calls.spaces = @ + (IF e = K_SPACE THEN 1 ELSE 0)]
         IN  IF h.game_state = MENU THEN [h EXCEPT !.game_state = PLAYING]
             ELSE IF h.game_state = PLAYING
             THEN [h EXCEPT !.bird = Bird_flap(h.bird), !.calls.flaps = @ + 1]
             ELSE [reset_game(h, tops) EXCEPT !.game_state = PLAYING, !.calls.resets = @ + 1]

\* game_loop, the body of "for event in pygame.event.get()" for one event
HandleEvent(g, e, tops) ==
    IF e = QUIT THEN [g EXCEPT !.running = FALSE]
    ELSE IF e = K_SPACE THEN
        LET h == [g EXCEPT !.calls.spaces = @ + 1]
        IN  IF h.game_state = MENU THEN [h EXCEPT !.game_state = PLAYING]
            ELSE IF h.game_state = PLAYING
            THEN [h EXCEPT !.bird = Bird_flap(h.bird), !.calls.flaps = @ + 1]
            ELSE [reset_game(h, tops) EXCEPT !.game_state = PLAYING, !.calls.resets = @ + 1]
    ELSE g

\* game_loop, "for event in pygame.event.get()"
RECURSIVE HandleEventList(_, _, _)
HandleEventList(g, evs, tops) ==
    IF evs = <<>> THEN g
    ELSE HandleEventList(HandleEvent(g, Head(evs), tops), Tail(evs), tops)

\* FlappyBird.draw_menu: self.bird.rect.center = (SCREEN_WIDTH // 2, SCREEN_HEIGHT // 2 - 50)
draw_menu(g) ==
    [g EXCEPT !.bird.rect = SetCenter(g.bird.rect, SCREEN_WIDTH \div 2,
                                      SCREEN_HEIGHT \div 2 - MENU_BIRD_RAISE)]

\* The check with the test of the bottom edge left out
Hit_NoBottom(g) == check_collisions(g)

\* game_loop, "Check collisions and boundaries"
Hit(g) == check_collisions(g) \/ bottom(g.bird.rect) >= SCREEN_HEIGHT

\* The PLAYING branch with the collision check made before the pipes advance
UpdatePlaying_CheckBeforePipes(g, top) ==
    LET b == [g EXCEPT !.bird = Bird_update(g.bird)]
        h == update_pipes(b, top)
    IN  IF Hit(b) THEN game_over(h) ELSE h

\* game_loop, the branch "elif self.game_state == GameState.PLAYING"
UpdatePlaying(g, top) ==
    LET h == update_pipes([g EXCEPT !.bird = Bird_update(g.bird)], top)
    IN  IF Hit(h) THEN game_over(h) ELSE h

\* clock.tick(FPS): the frame has taken ms milliseconds
ClockTick(g, ms) == [g EXCEPT !.since_last_pipe = @ + ms]

(***************************************************************************)
(* The state machine                                                       *)
(***************************************************************************)
NoCalls(was) == [was |-> was, spaces |-> 0, flaps |-> 0, resets |-> 0]

\* The object and the loop's locals, as the operators above take them
Game ==
    [ running |-> running, game_state |-> game_state, bird |-> bird, pipes |-> pipes,
      score |-> score, high_score |-> high_score, pipe_frequency |-> pipe_frequency,
      since_last_pipe |-> since_last_pipe, pipe_count |-> pipe_count, calls |-> calls ]

Becomes(g) ==
    /\ running' = g.running
    /\ game_state' = g.game_state
    /\ bird' = g.bird
    /\ pipes' = g.pipes
    /\ score' = g.score
    /\ high_score' = g.high_score
    /\ pipe_frequency' = g.pipe_frequency
    /\ since_last_pipe' = g.since_last_pipe
    /\ pipe_count' = g.pipe_count
    /\ calls' = g.calls

\* FlappyBird.__init__ up to the call of game_loop, in one of the runs envs
Start(envs) ==
    /\ env \in envs
    /\ high_score = env.high_score_file
    /\ saved = high_score
    /\ \E tops \in [1..SEED_PIPES -> env.tops] :
          LET g == reset_game(
                     [ running |-> TRUE, game_state |-> MENU, bird |-> Bird_init,
                       pipes |-> <<>>, score |-> 0, high_score |-> high_score,
                       pipe_frequency |-> INITIAL_PIPE_FREQUENCY, since_last_pipe |-> 0,
                       pipe_count |-> 0, calls |-> NoCalls(MENU) ], tops)
          IN  /\ running = g.running
              /\ game_state = g.game_state
              /\ bird = g.bird
              /\ pipes = g.pipes
              /\ score = g.score
              /\ pipe_frequency = g.pipe_frequency
              /\ since_last_pipe = g.since_last_pipe
              /\ pipe_count = g.pipe_count
              /\ calls = g.calls
    /\ pc = "events"
    /\ session = 0
    /\ ticks = 0
    /\ idle = 0

Init == Start(Environments)

Count(evs, e) == Cardinality({i \in 1..Len(evs) : evs[i] = e})

Horizon == IF session = 0 THEN env.max_ticks ELSE MaxReplayTicks

\* The inputs the model delivers in the current state
Offered(evs) ==
    LET spaces == Count(evs, K_SPACE)
        quits  == Count(evs, QUIT)
    IN  /\ game_state = PLAYING /\ spaces > 0 => bird.velocity \in env.flap_at
        /\ game_state = PLAYING /\ quits = 0 =>
              ticks < Horizon \/ (env.stop = "fall" /\ spaces = 0)
        /\ game_state = GAME_OVER /\ spaces > 0 => session < MaxRestarts
        /\ game_state # PLAYING /\ spaces = 0 /\ quits = 0 => idle < MaxIdleFrames

\* The draws of random.randint in reset_game, when the events call it
ResetDraws(evs) ==
    IF game_state = GAME_OVER /\ Count(evs, K_SPACE) > 0
    THEN [1..SEED_PIPES -> env.tops]
    ELSE {[i \in 1..SEED_PIPES |-> PIPE_MARGIN]}

\* game_loop: pygame.event.get() and the loop over its events
HandleEvents ==
    /\ pc = "events"
    /\ \E evs \in Inputs :
          /\ Offered(evs)
          /\ \E tops \in ResetDraws(evs) :
                LET g == HandleEventList([Game EXCEPT !.calls = NoCalls(game_state)],
                                         evs, tops)
                IN  /\ Becomes(g)
                    /\ session' = session + g.calls.resets
                    /\ ticks' = IF g.calls.resets > 0 THEN 0 ELSE ticks
                    /\ idle' = IF g.game_state # PLAYING /\ g.calls.spaces = 0
                               THEN idle + 1 ELSE 0
    /\ pc' = "update"
    /\ UNCHANGED <<saved, env>>

AfterFrame == pc' = IF running THEN "events" ELSE "quit"

\* game_loop: the MENU branch, display.update and clock.tick
MenuFrame ==
    /\ pc = "update" /\ game_state = MENU
    /\ Becomes(ClockTick(draw_menu(Game), env.frame_ms))
    /\ AfterFrame
    /\ UNCHANGED <<saved, env, session, ticks, idle>>

\* The draw of random.randint in update_pipes, when it spawns a pipe
SpawnDraws == IF SpawnDue(Game) THEN env.tops ELSE {PIPE_MARGIN}

\* game_loop: the PLAYING branch, display.update and clock.tick
PlayingFrame ==
    /\ pc = "update" /\ game_state = PLAYING
    /\ \E top \in SpawnDraws :
          Becomes(ClockTick(UpdatePlaying(Game, top), env.frame_ms))
    /\ ticks' = ticks + 1
    /\ AfterFrame
    /\ UNCHANGED <<saved, env, session, idle>>

\* The GAME_OVER branch with the pipes still scrolling
GameOverFrame_Scrolls ==
    /\ pc = "update" /\ game_state = GAME_OVER
    /\ \E top \in SpawnDraws :
          Becomes(ClockTick([update_pipes(Game, top) EXCEPT !.score = score,
                                                          !.pipe_frequency = pipe_frequency],
                            env.frame_ms))
    /\ AfterFrame
    /\ UNCHANGED <<saved, env, session, ticks, idle>>

\* game_loop: the GAME_OVER branch, display.update and clock.tick
GameOverFrame ==
    /\ pc = "update" /\ game_state = GAME_OVER
    /\ Becomes(ClockTick(Game, env.frame_ms))
    /\ AfterFrame
    /\ UNCHANGED <<saved, env, session, ticks, idle>>

\* game_loop after the loop: save_high_score, pygame.quit, sys.exit
Shutdown ==
    /\ pc = "quit"
    /\ saved' = high_score
    /\ pc' = "exited"
    /\ UNCHANGED <<running, game_state, bird, pipes, score, high_score, pipe_frequency,
                   since_last_pipe, env, calls, session, ticks, idle, pipe_count>>

Next == HandleEvents \/ MenuFrame \/ PlayingFrame \/ GameOverFrame \/ Shutdown

Spec == Init /\ [][Next]_vars

\* The run of the climbing player
InitCeiling == Start(CeilingEnvironments)
SpecCeiling == InitCeiling /\ [][Next]_vars

\* A step of game_loop: every action of Next moves pc, and one of them is
\* enabled wherever the loop has not been left for good.
LoopStep == pc # "exited" /\ pc' \in {"events", "update", "quit", "exited"} \ {pc}

\* The same run with the loop "while running" never stopping between two of
\* its steps: pygame.event.get() does not block and clock.tick returns.
SpecCeilingFair == SpecCeiling /\ WF_pc(LoopStep)

TypeOK ==
    /\ pc \in {"events", "update", "quit", "exited"}
    /\ running \in BOOLEAN
    /\ game_state \in GameState
    /\ score \in Nat /\ high_score \in Nat /\ saved \in Nat
    /\ pipe_frequency \in Nat /\ since_last_pipe \in Nat
    /\ \A i \in 1..Len(pipes) : pipes[i].id \in 1..pipe_count
    /\ env.tops \subseteq TopRange

(***************************************************************************)
(* Properties                                                              *)
(***************************************************************************)
\* A frame is complete when the loop is back at pygame.event.get() or has left
FrameDone == pc # "update"

\* The frame that has just completed was entered in state a and left in state b
Edge(a, b) == FrameDone /\ calls.was = a /\ game_state = b

\* Two rectangles, given by their corners, share a point of positive area
Overlap(ax, ay, aw, ah, bx, by, bw, bh) ==
    ax < bx + bw /\ bx < ax + aw /\ ay < by + bh /\ by < ay + ah

\* The bird's box overlaps the top or the bottom segment of pipe p
OnSegment(p) ==
    \/ Overlap(bird.rect.x, bird.rect.y, bird.rect.w, bird.rect.h,
               p.x, 0, PIPE_WIDTH, p.top)
    \/ Overlap(bird.rect.x, bird.rect.y, bird.rect.w, bird.rect.h,
               p.x, p.bottom, PIPE_WIDTH, SCREEN_HEIGHT - p.bottom)

OnAnySegment == \E i \in 1..Len(pipes) : OnSegment(pipes[i])
AtBottom == bird.rect.y + bird.rect.h >= SCREEN_HEIGHT

\* C1: between the start and the end of a frame the game state either stays,
\* or goes MENU -> PLAYING or GAME_OVER -> PLAYING in a frame that received a
\* SPACE key, or goes PLAYING -> GAME_OVER in a frame whose collision-or-bottom
\* check fired; no other edge is ever taken.
C1_StateEdges ==
    FrameDone =>
        \/ calls.was = game_state
        \/ calls.was = MENU /\ game_state = PLAYING /\ calls.spaces > 0
        \/ calls.was = GAME_OVER /\ game_state = PLAYING /\ calls.spaces > 0
        \/ calls.was = PLAYING /\ game_state = GAME_OVER /\ (OnAnySegment \/ AtBottom)

\* C1 witness: a restart frame has completed, after a start and a game over
C1_Witness == Edge(GAME_OVER, PLAYING) /\ session = 1 /\ pc = "events"

\* C2: a frame never ends in PLAYING with the bird's box on a segment of a
\* live pipe or with its bottom edge at or below the playfield height.
C2_NoOverlapWhilePlaying ==
    FrameDone /\ game_state = PLAYING => ~OnAnySegment /\ ~AtBottom

\* C2 witness: a frame of play ended the game on a pipe, above the bottom
C2_Witness == Edge(PLAYING, GAME_OVER) /\ OnAnySegment /\ ~AtBottom

\* C3: in GAME_OVER high_score >= score; high_score never decreases, changes
\* only on a step from PLAYING to GAME_OVER, and on every such step becomes
\* the larger of its old value and the score.
C3_HighScore ==
    /\ [](game_state = GAME_OVER => high_score >= score)
    /\ [][ /\ high_score' >= high_score
           /\ high_score' # high_score => game_state = PLAYING /\ game_state' = GAME_OVER
           /\ game_state = PLAYING /\ game_state' = GAME_OVER
                 => high_score' = Max(high_score, score') ]_vars

\* C3 witness: a game ended with a score above the high score it started with
C3_Witness ==
    Edge(PLAYING, GAME_OVER) /\ score > env.high_score_file /\ high_score = score

\* The centre of the bird's box is the start position of Bird.__init__
AtStart == centerx(bird.rect) = BIRD_START_X /\ centery(bird.rect) = SCREEN_HEIGHT \div 2

\* C4: whenever the first tick of a session is about to run, at the first
\* start and after every restart, pipe_frequency is the initial 1500.
C4_ResetRestoresInterval ==
    game_state = PLAYING /\ ticks = 0 => pipe_frequency = INITIAL_PIPE_FREQUENCY

\* C5: when the events of a frame have restarted the game, then before the
\* frame's physics the score is 0, the bird is in the box of side 50 centred
\* at (100, 350), with velocity 0 unless a later SPACE of the same frame
\* flapped, the pipes are exactly two unscored ones at x = 1000 and 1400 in
\* that order, and the time since last_pipe_time is 0.
C5_RestartIsFullReset ==
    pc = "update" /\ calls.resets > 0 =>
        /\ score = 0
        /\ AtStart /\ bird.rect.w = BIRD_SIZE /\ bird.rect.h = BIRD_SIZE
        /\ calls.flaps = 0 => bird.velocity = 0
        /\ Len(pipes) = 2
        /\ pipes[1].x = SCREEN_WIDTH /\ pipes[2].x = SCREEN_WIDTH + SEED_SPACING
        /\ ~pipes[1].scored /\ ~pipes[2].scored
        /\ since_last_pipe = 0
        /\ game_state = PLAYING

\* C5 witness: a restart without a flap, after a session that scored
C5_Witness ==
    /\ pc = "update" /\ calls.resets = 1 /\ calls.flaps = 0
    /\ high_score > env.high_score_file

\* C6: while the state is MENU, and still when the events of a frame have
\* moved it from MENU to PLAYING, the bird is at its start position with
\* velocity 0 unless it has flapped, and the pipes are the seeded ones.
C6_MenuIsPassive ==
    game_state = MENU \/ (pc = "update" /\ calls.was = MENU) =>
        /\ AtStart
        /\ calls.flaps = 0 => bird.velocity = 0
        /\ Len(pipes) = 2
        /\ pipes[1].x = SCREEN_WIDTH /\ pipes[2].x = SCREEN_WIDTH + SEED_SPACING

\* C7: a step that starts and ends in GAME_OVER changes neither the bird nor
\* the pipes, the score, the high score or pipe_frequency, and leaves
\* last_pipe_time alone: the time since it grows by the frame time when the
\* frame ends and not otherwise.
C7_GameOverIsPassive ==
    [][ game_state = GAME_OVER /\ game_state' = GAME_OVER =>
           /\ bird' = bird
           /\ pipes' = pipes
           /\ score' = score
           /\ high_score' = high_score
           /\ pipe_frequency' = pipe_frequency
           /\ pipe_count' = pipe_count
           /\ since_last_pipe' = since_last_pipe +
                                  (IF pc = "update" THEN env.frame_ms ELSE 0) ]_vars

\* C7 witness: a whole frame has passed in GAME_OVER with pipes on the screen
C7_Witness == Edge(GAME_OVER, GAME_OVER) /\ pc = "events" /\ Len(pipes) > 0

\* The pipes of the list ps
PipeSet(ps) == {ps[i] : i \in 1..Len(ps)}

\* The pipes of the current state that are the object q of the next state
\* (the same id); none when q has just been constructed
Before(q) ==
    LET k == IF pipes = <<>> THEN 0 ELSE q.id - pipes[1].id + 1
    IN  IF k \in 1..Len(pipes) /\ pipes[k].id = q.id
        THEN {pipes[k]}
        ELSE {p \in PipeSet(pipes) : p.id = q.id}

\* The pipes of the next state whose scored flag this step has set
NewlyScored ==
    {q \in PipeSet(pipes') : q.scored /\ \A p \in Before(q) : ~p.scored}

\* C8: the pipes of the list are distinct objects, and the score is the number
\* of pipes of the session whose flag has been set: the flagged pipes of the
\* list and the pipes already removed.  On every step within a session a set
\* flag stays set, an unset flag is set exactly in a frame of play that leaves
\* the pipe with x + width < the bird's left edge, and the score grows by the
\* number of flags the step has set, 1 for each pipe.
C8_ScoredOnce ==
    /\ [](/\ \A i \in 1..Len(pipes) - 1 : pipes[i].id < pipes[i + 1].id
          /\ score = Cardinality({i \in 1..Len(pipes) : pipes[i].scored})
                     + (pipe_count - Len(pipes)))
    /\ [][ session' = session =>
            /\ \A q \in PipeSet(pipes') :
                  /\ \A p \in Before(q) : p.scored => q.scored
                  /\ (\A p \in Before(q) : ~p.scored) =>
                        (q.scored <=> /\ pc = "update" /\ game_state = PLAYING
                                      /\ q.x + PIPE_WIDTH < bird'.rect.x)
            /\ score' = score + Cardinality(NewlyScored) ]_vars

\* C8 witness: pipes have been passed, the first of them is gone from the
\* list, and scored and unscored pipes are on the screen
C8_Witness ==
    /\ score > 2 /\ pipe_count > Len(pipes)
    /\ \E i, j \in 1..Len(pipes) : pipes[i].scored /\ ~pipes[j].scored

\* C9: pipe_frequency changes only on a step that increments the score, and
\* on such a step it goes down by 100 for the multiple of 5 the score reaches
\* or crosses, but not below 800; it is unchanged when no multiple is reached.
C9_IntervalFollowsScore ==
    [][ /\ pipe_frequency' # pipe_frequency => score' > score
        /\ score' > score =>
              pipe_frequency' =
                  Max(Min(pipe_frequency, MIN_PIPE_FREQUENCY),
                      pipe_frequency - PIPE_FREQUENCY_STEP *
                          (score' \div SCORE_STEP - score \div SCORE_STEP)) ]_vars

\* C9 witness: the second decrement of the first session, 1300 at score 10
C9_Witness ==
    session = 0 /\ score = 2 * SCORE_STEP
    /\ pipe_frequency = INITIAL_PIPE_FREQUENCY - 2 * PIPE_FREQUENCY_STEP

\* C10: pipe_frequency stays between 800 and 1500, and within a session it
\* never increases.
C10_IntervalBounds ==
    /\ [](MIN_PIPE_FREQUENCY <= pipe_frequency
          /\ pipe_frequency <= INITIAL_PIPE_FREQUENCY)
    /\ [][session' = session => pipe_frequency' <= pipe_frequency]_vars

\* C10 witness: the score has reached a multiple of 5 with pipe_frequency
\* already at the floor
C10_Witness ==
    pipe_frequency = MIN_PIPE_FREQUENCY /\ score = 8 * SCORE_STEP


\* The step is the update of a frame of play (Bird.update, update_pipes and
\* the collision check), and the events of the frame have not flapped
PlayingTick == pc = "update" /\ game_state = PLAYING
NoFlapTick == PlayingTick /\ calls.flaps = 0

\* A frame of play has just completed
Played == FrameDone /\ calls.was = PLAYING

\* C11 as stated: the velocity stays within [-8, 10] (in half pixels, -16 and
\* 20), and in every frame of play without a flap it becomes
\* min(velocity + 0.5, 10).
C11_GravityAlways ==
    /\ [](flap_velocity <= bird.velocity /\ bird.velocity <= max_velocity)
    /\ [][NoFlapTick => bird'.velocity = Min(bird.velocity + gravity, max_velocity)]_vars

\* C11, corrected: the velocity stays within [-8, 10], and in every frame of
\* play without a flap it becomes min(velocity + 0.5, 10), except in a frame
\* that ends with the bird's box at the ceiling (top = 0), where it becomes 0.
C11_GravityUnlessCeiling ==
    /\ [](flap_velocity <= bird.velocity /\ bird.velocity <= max_velocity)
    /\ [][NoFlapTick =>
            bird'.velocity = IF bird'.rect.y = 0 THEN 0
                             ELSE Min(bird.velocity + gravity, max_velocity)]_vars

\* C11 witness: a frame without a flap has ended at the ceiling with the
\* velocity zeroed; the angle shows that Bird.update had computed -3 or less
C11_Witness ==
    /\ Played /\ calls.flaps = 0
    /\ bird.rect.y = 0 /\ bird.velocity = 0 /\ bird.angle >= 6 * ANGLE_PER_VELOCITY

\* The velocity Bird.update computes from the velocity the events have left
FallVelocity == Min(bird.velocity + gravity, max_velocity)

\* The top edge the move of Bird.update gives the bird's box before the test
\* of the ceiling: the box of the rotated image, centred on the moved rect
MovedTop ==
    LET side == RotatedSize(Max(MIN_ANGLE, Min(-FallVelocity * ANGLE_PER_VELOCITY, MAX_ANGLE)))
    IN  TruncHalf(2 * bird.rect.y + FallVelocity) + bird.rect.h \div 2 - side \div 2

\* C12: the top edge of the bird's box is never above the screen top.  A frame
\* of play whose move puts the top edge at or above the screen top ends with
\* the top edge at 0 and the velocity 0, any other frame ends where the move
\* has put the box; and a frame that ends at the ceiling ends the game only if
\* the box is on a pipe segment.
C12_CeilingClamp ==
    /\ [](bird.rect.y >= 0)
    /\ [][PlayingTick =>
            /\ MovedTop <= 0 => bird'.rect.y = 0 /\ bird'.velocity = 0
            /\ MovedTop > 0 => bird'.rect.y = MovedTop /\ bird'.velocity = FallVelocity
            /\ bird'.rect.y = 0 /\ game_state' = GAME_OVER => OnAnySegment']_vars

\* C12 witness: a frame with a flap has ended at the ceiling, velocity zeroed,
\* and the game goes on
C12_Witness ==
    /\ Played /\ calls.flaps > 0 /\ game_state = PLAYING
    /\ bird.rect.y = 0 /\ bird.velocity = 0 /\ bird.angle = -(flap_velocity + gravity) * ANGLE_PER_VELOCITY

\* C13: in the event loop every SPACE handled while the state is PLAYING calls
\* Bird.flap, and the SPACE handled in MENU or GAME_OVER (the first of the
\* frame) does not; after a flap the velocity is -8 whatever it was, and
\* without a flap or a reset the bird is untouched.  The update of the same
\* frame runs on that velocity: the frame ends with velocity -7.5, or with 0
\* when it ends at the ceiling.
C13_FlapBeforePhysics ==
    [][ /\ pc = "events" =>
              /\ calls'.flaps = IF game_state = PLAYING THEN calls'.spaces
                                ELSE Max(calls'.spaces - 1, 0)
              /\ calls'.flaps > 0 => bird'.velocity = flap_velocity
              /\ calls'.flaps = 0 /\ calls'.resets = 0 => bird' = bird
        /\ PlayingTick /\ calls.flaps > 0 =>
              /\ bird.velocity = flap_velocity
              /\ bird'.velocity = IF bird'.rect.y = 0 THEN 0 ELSE flap_velocity + gravity ]_vars

\* C13 witness: the one SPACE of a frame of play has been applied, and the
\* frame has ended in the air with velocity -7.5
C13_Witness ==
    /\ Played /\ calls.flaps = 1 /\ calls.spaces = 1 /\ ticks > SEED_PIPES
    /\ bird.velocity = flap_velocity + gravity /\ bird.rect.y > BIRD_SIZE

\* C14: every pipe of the list has 100 <= top <= 400, bottom - top = 200 and
\* bottom <= 700, so both its segments are at least 100 high; and no step of a
\* session changes the top or the bottom of a pipe.
C14_GapValid ==
    /\ [](\A i \in 1..Len(pipes) :
             /\ PIPE_MARGIN <= pipes[i].top
             /\ pipes[i].top <= SCREEN_HEIGHT - PIPE_GAP - PIPE_MARGIN
             /\ pipes[i].bottom - pipes[i].top = PIPE_GAP
             /\ pipes[i].bottom <= SCREEN_HEIGHT
             /\ SCREEN_HEIGHT - pipes[i].bottom >= PIPE_MARGIN)
    /\ [][session' = session =>
            \A q \in PipeSet(pipes') : \A p \in Before(q) :
                q.top = p.top /\ q.bottom = p.bottom]_vars

\* C14 witness: a pipe spawned during play with the lowest gap has moved on,
\* and a pipe with the highest gap is on the list with it
C14_Witness ==
    \E i, j \in 1..Len(pipes) :
        /\ pipes[i].id > SEED_PIPES
        /\ pipes[i].top = SCREEN_HEIGHT - PIPE_GAP - PIPE_MARGIN
        /\ pipes[i].bottom = SCREEN_HEIGHT - PIPE_MARGIN
        /\ pipes[i].x < SCREEN_WIDTH - PIPE_SPEED
        /\ pipes[j].top = PIPE_MARGIN

\* C15: in a frame of play without a flap that does not end at the ceiling the
\* velocity becomes min(velocity + 0.5, 10) and the height of the bird's
\* centre grows by exactly the new velocity (both sides in half pixels).
C15_PositionExact ==
    [][NoFlapTick /\ bird'.rect.y # 0 =>
          /\ bird'.velocity = Min(bird.velocity + gravity, max_velocity)
          /\ 2 * centery(bird'.rect) = 2 * centery(bird.rect) + bird'.velocity]_vars

\* The ids of the pipes of the list ps, in the order of the list
Ids(ps) == [i \in 1..Len(ps) |-> ps[i].id]

\* C16: after the update of a frame of play no pipe of the list has
\* x + width < 0; the pipes of the list are those of the old list that are not
\* off-screen after moving 5 to the left, in their old order (ids are spawn
\* serials, so the order is ascending), followed by the pipe the frame has
\* spawned, if any.
C16_RemovesOffScreen ==
    [][PlayingTick =>
          LET spawned == since_last_pipe > pipe_frequency
              kept    == SelectSeq(pipes, LAMBDA p : ~(p.x - PIPE_SPEED + PIPE_WIDTH < 0))
          IN  /\ \A i \in 1..Len(pipes') : ~(pipes'[i].x + PIPE_WIDTH < 0)
              /\ Ids(pipes') = IF spawned THEN Append(Ids(kept), pipe_count + 1)
                               ELSE Ids(kept)
              /\ \A i \in 1..Len(pipes') - 1 : pipes'[i].id < pipes'[i + 1].id
              /\ spawned => pipes'[Len(pipes')].x = SCREEN_WIDTH - PIPE_SPEED]_vars

\* C16 witness: the first seeded pipe and the first spawned pipe have been
\* removed, the latter from between the second seeded pipe and the pipe that
\* is now exactly at the edge (x + width = 0), which is not off-screen
C16_Witness ==
    /\ Played /\ Len(pipes) > SEED_PIPES
    /\ pipes[1].id = SEED_PIPES /\ pipes[2].id = SEED_PIPES + 2
    /\ pipes[2].x + PIPE_WIDTH = 0

\* C17: the box of the bird, which the collision test, the bottom test, the
\* ceiling test and the test of a passed pipe read, has the same width and
\* height in every state, those of the 50 x 50 image.
C17_BoxIsFixed == bird.rect.w = BIRD_SIZE /\ bird.rect.h = BIRD_SIZE

\* C18: when the loop has been left (a QUIT event has ended the session, in
\* whatever state) high_score >= score, and the number written to
\* high_score.txt is >= the score of the session that was being played.
C18_SavedCoversScores ==
    /\ pc \in {"quit", "exited"} => high_score >= score
    /\ pc = "exited" => saved >= score

\* C19: at 60 frames per second no two pipes of the list overlap horizontally
\* in a PLAYING state: the ranges [x, x + width] of two different pipes are
\* disjoint.
C19_PipesApart ==
    game_state = PLAYING /\ env.frame_ms = FrameMs =>
        \A i, j \in 1..Len(pipes) :
            i < j => \/ pipes[i].x + PIPE_WIDTH < pipes[j].x
                     \/ pipes[j].x + PIPE_WIDTH < pipes[i].x

\* Frames of play without a flap after which the bird has reached the bottom
\* wherever it was: gravity brings any velocity to max_velocity within
\* (max_velocity - flap_velocity) / gravity frames, and at max_velocity the
\* box crosses the height of the screen within SCREEN_HEIGHT / 10 frames.
FallTicks ==
    (max_velocity - flap_velocity) \div gravity + SCREEN_HEIGHT \div (max_velocity \div 2)

\* C20: from every PLAYING state the run reaches GAME_OVER, unless a further
\* flap arrives or the window is closed; and the frames of play of a session
\* never exceed the frames in which the player may flap by more than
\* FallTicks.
C20_FallEndsSession ==
    /\ [](game_state = PLAYING => ticks <= Horizon + FallTicks)
    /\ (game_state = PLAYING /\ pc = "events")
          ~> (game_state = GAME_OVER \/ (pc = "update" /\ calls.flaps > 0) \/ ~running)

\* C20 witness: the player has stopped flapping with the bird under the
\* ceiling, and the fall has ended the game at the bottom
C20_Witness ==
    /\ Edge(PLAYING, GAME_OVER) /\ AtBottom /\ ~OnAnySegment
    /\ ticks > env.max_ticks + SCREEN_HEIGHT \div max_velocity
====
